---- MODULE Spec2Model ----
(***************************************************************************)
(* The connection registry (ConnectionManager), the authentication         *)
(* handshake and the message dispatcher (MessageRouter) of the watchout    *)
(* stream router, as a state machine.  One action per inbound event:       *)
(* transport open, each message kind, the completion of a credential       *)
(* verification, and transport close.                                      *)
(***************************************************************************)
EXTENDS Integers, Sequences, FiniteSets, TLC

\* ------------------------------------------------------------ universe
\* The connections, in the order in which they connect.
ConnOrder == <<"c1", "c2">>
Conns == {ConnOrder[i] : i \in DOMAIN ConnOrder}
\* Stream ids clients use; "stream_1" has the format the server generates.
StreamIds == {"s1", "stream_1"}
GeneratedIds == {"stream_1"}
Kinds == {"video-frame", "alert"}
ClientTypes == {"mobile", "dashboard"}
Paths == {"/streams/register", "/streams/subscribe"}
Tokens == {"tokA", "tokB", "bad"}
None == "none"
\* The produces/consumes value of a message that carries no such list.
Undefined == {"undefined"}

\* Credential verifications that may be in flight at the same time.
MaxInFlight == 2

\* register and subscribe messages accepted in one run.
MaxRegistrations == 2

\* The idle window of a connection, in clock ticks.
IdleTicks == 2

PolicyViolation == 1008

VARIABLES
    status,              \* transport of each connection: idle, open, closing, closed
    closeCode,           \* code of a server-initiated close, 0 when there was none
    data,                \* ws.data of each connection
    pendingAuth,         \* verifySessionToken calls awaited by handleAuth, per connection and token
    videoProducers,      \* ConnectionManager.videoProducers: streamId -> connection
    videoConsumers,      \* ConnectionManager.videoConsumers: streamId -> Set in insertion order
    alertConsumers,      \* ConnectionManager.alertConsumers: streamId -> Set in insertion order
    connectionMetadata,  \* ConnectionManager.connectionMetadata: connection -> its record, {} when it has none
    metricsStreams,      \* keys of MetricsTracker.streams
    sent,                \* per connection, the send() calls of the last step that returned normally
    last,                \* the event handled by the last step
    registrations,       \* register and subscribe messages accepted so far
    idle,                \* per connection, the ticks since its last message (idleTimeout)
    pendingLookup,       \* per connection, the register/subscribe requests awaiting the stream store
    streams,             \* MetricsTracker.streams: streamId -> its StreamMetrics, {} when it has none
    clock                \* Date.now(), in ms since the server started

vars == <<status, closeCode, data, pendingAuth, videoProducers, videoConsumers,
          alertConsumers, connectionMetadata, metricsStreams, sent, last, registrations,
          idle, pendingLookup, streams, clock>>

trackerVars == <<streams, clock>>

registryVars == <<videoProducers, videoConsumers, alertConsumers, connectionMetadata>>

\* ------------------------------------------------------------ helpers
Range(s) == {s[i] : i \in 1..Len(s)}

\* The session table behind verifySessionToken: a live session or null.
verifySessionToken(token) ==
    CASE token = "tokA" -> "u1"
      [] token = "tokB" -> "u2"
      [] OTHER -> None

\* The data object server.upgrade attaches to a new connection.
UpgradeData(path) ==
    [streamId |-> "",
     clientType |-> IF path = "/streams/register" THEN "mobile" ELSE "dashboard",
     produces |-> {}, consumes |-> {},
     authenticated |-> FALSE, userId |-> None]

ErrorMsg(code) == [type |-> "error", code |-> code, streamId |-> "", status |-> ""]
SuccessMsg == [type |-> "success", code |-> "", streamId |-> "", status |-> ""]
DataMsg(kind, streamId) == [type |-> kind, code |-> "", streamId |-> streamId, status |-> ""]
StatusMsg(streamId, st) == [type |-> "status", code |-> "", streamId |-> streamId, status |-> st]

NoSends == [c \in Conns |-> <<>>]

\* The place of the client's message in an event that is not the reception of
\* a data message.
NoMessage == [type |-> ""]

Event(op, c, streamId, token, fail) ==
    [op |-> op, conn |-> c, streamId |-> streamId, token |-> token, fail |-> fail,
     outcome |-> "", message |-> NoMessage]

\* The event e with the message as the client sent it.
Received(e, m) == [e EXCEPT !.message = m]

\* The event e with the way its handler ended.
Outcome(e, o) == [e EXCEPT !.outcome = o]

\* No handler is running and the sends of the last one have been handed to the
\* sockets: the event loop takes the next event.
Quiet == last.op = "idle"

InFlight == LET Sum[S \in SUBSET (Conns \X Tokens)] ==
                    IF S = {} THEN 0
                    ELSE LET p == CHOOSE q \in S : TRUE
                         IN pendingAuth[p[1]][p[2]] + Sum[S \ {p}]
            IN Sum[Conns \X Tokens]

\* ------------------------------------------------------------ ConnectionManager
\* An array push in place of Set.add: every call adds an occurrence.
SetAddAlways(set, ws) == Append(set, ws)

\* A JavaScript Set keeps one occurrence of each member, in insertion order.
SetAdd(set, ws) == IF ws \in Range(set) THEN set ELSE Append(set, ws)

SetDelete(set, ws) == SelectSeq(set, LAMBDA x : x # ws)

\* Number of occurrences of d in a sequence of connections.
Count(d, seq) == Cardinality({i \in DOMAIN seq : seq[i] = d})

\* A registerProducer that keeps the producer a stream already has.
registerProducerIfFree(vp, streamId, ws, type) ==
    IF type = "video-frame" /\ vp[streamId] = None
    THEN [vp EXCEPT ![streamId] = ws] ELSE vp

\* videoProducers.set(streamId, ws) for video-frame, nothing for another kind.
registerProducer(vp, streamId, ws, type) ==
    IF type = "video-frame" THEN [vp EXCEPT ![streamId] = ws] ELSE vp

\* cons is the pair of consumer maps [video, alert].
registerConsumer(cons, streamId, ws, type) ==
    IF type = "video-frame"
    THEN [cons EXCEPT !.video[streamId] = SetAdd(@, ws)]
    ELSE IF type = "alert"
         THEN [cons EXCEPT !.alert[streamId] = SetAdd(@, ws)]
         ELSE cons

\* for (const type of produces) registerProducer(...)
RegisterProduced(vp, streamId, ws, produces) ==
    LET a == IF "video-frame" \in produces
             THEN registerProducer(vp, streamId, ws, "video-frame") ELSE vp
    IN IF "alert" \in produces THEN registerProducer(a, streamId, ws, "alert") ELSE a

\* A consumer loop that registers the video-frame kind only.
RegisterConsumedVideoOnly(cons, streamId, ws, consumes) ==
    IF "video-frame" \in consumes
    THEN registerConsumer(cons, streamId, ws, "video-frame") ELSE cons

\* for (const type of consumes) registerConsumer(...)
RegisterConsumed(cons, streamId, ws, consumes) ==
    LET a == IF "video-frame" \in consumes
             THEN registerConsumer(cons, streamId, ws, "video-frame") ELSE cons
    IN IF "alert" \in consumes THEN registerConsumer(a, streamId, ws, "alert") ELSE a

\* A lookup that ignores the kind asked for.
ConsumersOfAnyKind(cons, streamId, type) ==
    cons.video[streamId] \o SelectSeq(cons.alert[streamId],
                                      LAMBDA d : d \notin Range(cons.video[streamId]))

\* getConsumers over given consumer maps: a snapshot array of the Set.
ConsumersOf(cons, streamId, type) ==
    IF type = "video-frame" THEN cons.video[streamId]
    ELSE IF type = "alert" THEN cons.alert[streamId]
    ELSE <<>>

Consumers == [video |-> videoConsumers, alert |-> alertConsumers]

getConsumers(streamId, type) == ConsumersOf(Consumers, streamId, type)

getProducer(streamId, type) ==
    IF type = "video-frame" THEN videoProducers[streamId] ELSE None

\* Array.from(videoProducers.keys())
getActiveStreams == {s \in StreamIds : videoProducers[s] # None}

\* The sum of the sizes of the Sets of a consumer map.
TotalSize(consumerMap) ==
    LET Sum[S \in SUBSET StreamIds] ==
            IF S = {} THEN 0
            ELSE LET s == CHOOSE x \in S : TRUE
                 IN Len(consumerMap[s]) + Sum[S \ {s}]
    IN Sum[StreamIds]

getStats ==
    [totalProducers |-> Cardinality(getActiveStreams),
     totalVideoConsumers |-> TotalSize(videoConsumers),
     totalAlertConsumers |-> TotalSize(alertConsumers),
     totalConnections |-> Cardinality({c \in Conns : connectionMetadata[c] # {}}),
     activeStreams |-> getActiveStreams]

\* connectionMetadata.get(ws) || ws.data
getMetadata(ws) ==
    IF connectionMetadata[ws] # {}
    THEN CHOOSE m \in connectionMetadata[ws] : TRUE
    ELSE data[ws]

\* What removeConnection returns, as a set: {} for undefined, else the metadata
\* it worked with.  `if (!metadata) return undefined` is taken only when
\* getMetadata gives nothing, and getMetadata falls back to ws.data, which
\* server.upgrade sets for every connection.
removeConnection(ws) == {getMetadata(ws)}

\* removeConnection, producer part: only the slot of the stream in the
\* metadata, and only when that slot holds this very connection.
RemoveProducer(vp, ws, metadata) ==
    IF "video-frame" \in metadata.produces /\ vp[metadata.streamId] = ws
    THEN [vp EXCEPT ![metadata.streamId] = None]
    ELSE vp

\* removeConnection, consumer part: the sets of the stream in the metadata,
\* for the kinds the metadata lists.
RemoveConsumer(cons, ws, metadata) ==
    LET a == IF "video-frame" \in metadata.consumes
             THEN [cons EXCEPT !.video[metadata.streamId] = SetDelete(@, ws)]
             ELSE cons
    IN IF "alert" \in metadata.consumes
       THEN [a EXCEPT !.alert[metadata.streamId] = SetDelete(@, ws)]
       ELSE a

\* ------------------------------------------------------------ MessageRouter
\* out with msg appended once per occurrence of a connection in targets.
Push(out, targets, msg) ==
    [d \in Conns |-> out[d] \o [i \in 1..Count(d, targets) |-> msg]]

sendError(out, ws, code) == Push(out, <<ws>>, ErrorMsg(code))

sendSuccess(out, ws) == Push(out, <<ws>>, SuccessMsg)

\* A loop without the try/catch: the first send that throws ends it.
FanOutAbortOnFailure(consumers, fail) ==
    LET bad == {i \in DOMAIN consumers : consumers[i] \in fail}
    IN IF bad = {} THEN consumers
       ELSE SubSeq(consumers, 1, (CHOOSE i \in bad : \A j \in bad : i <= j) - 1)

\* for (const consumer of consumers) { try { consumer.send } catch { log } }:
\* the consumers whose send returned, fail being those whose send throws.
FanOut(consumers, fail) == SelectSeq(consumers, LAMBDA d : d \notin fail)

\* The consumers broadcastStatus addresses: video consumers, then alert consumers.
StatusTargets(cons, streamId) ==
    ConsumersOf(cons, streamId, "video-frame") \o ConsumersOf(cons, streamId, "alert")

broadcastStatus(out, cons, streamId, st, fail) ==
    Push(out, FanOut(StatusTargets(cons, streamId), fail), StatusMsg(streamId, st))

\* A handler without its authentication gate.
AuthRequiredSkipped(ws) == FALSE

\* if (!ws.data.authenticated): the gate of every handler but handleAuth.
AuthRequired(ws) == ~data[ws].authenticated

\* A register or subscribe that checks nothing.
NotAuthenticatedSkipped(ws) == FALSE

\* handleRegister and handleSubscribe reject on either of their two checks:
\* !ws.data.authenticated, then !existingData?.userId.
NotAuthenticated(ws) == AuthRequired(ws) \/ data[ws].userId = None

\* handleAuth without its re-authentication check.
AlreadyAuthenticatedSkipped(ws) == FALSE

\* handleAuth: if (ws.data.authenticated)
AlreadyAuthenticated(ws) == data[ws].authenticated

\* handleAuth that takes every verifier answer for a session.
AuthAcceptedAlways(session) == TRUE

\* handleAuth: if (!session) is the rejection
AuthAccepted(session) == session # None

\* for (const type of consumes), consumes.includes(...): a TypeError when the
\* message had no list.
NotIterable(kinds) == kinds = Undefined

\* Without the try/catch of routeMessage the exception reaches the catch of
\* websocket.message, which answers INVALID_MESSAGE.
RoutingFailureUncaught(out, ws) == sendError(out, ws, "INVALID_MESSAGE")

\* routeMessage: catch (error) { sendError(ws, "ROUTING_ERROR", ...) }
RoutingFailure(out, ws) == sendError(out, ws, "ROUTING_ERROR")

\* streamId || `stream_${Date.now()}_${random}`
FinalStreamIds(streamId) == IF streamId # "" THEN {streamId} ELSE GeneratedIds

\* handleAuth up to its await: the already-authenticated check, then the
\* verification is started.
HandleAuth(c, token, cap) ==
    /\ Quiet
    /\ status[c] = "open"
    /\ IF AlreadyAuthenticated(c)
       THEN /\ sent' = sendError(NoSends, c, "ALREADY_AUTHENTICATED")
            /\ UNCHANGED pendingAuth
       ELSE /\ InFlight < cap
            /\ pendingAuth' = [pendingAuth EXCEPT ![c][token] = @ + 1]
            /\ sent' = NoSends
    /\ last' = Event("auth", c, "", "", {})
    /\ UNCHANGED <<status, closeCode, data, registryVars, metricsStreams, registrations>>
    /\ UNCHANGED trackerVars
    /\ idle' = [idle EXCEPT ![c] = 0]
    /\ UNCHANGED pendingLookup

\* handleAuth after its await: verifySessionToken has resolved.  ws.data is
\* the object setMetadata stored, so a stored record changes with it.
AuthResume(c, token) ==
    /\ Quiet
    /\ pendingAuth[c][token] > 0
    /\ pendingAuth' = [pendingAuth EXCEPT ![c][token] = @ - 1]
    /\ LET session == verifySessionToken(token) IN
       IF AuthAccepted(session)
       THEN /\ data' = [data EXCEPT ![c].userId = session, ![c].authenticated = TRUE]
            /\ connectionMetadata' =
                 [connectionMetadata EXCEPT ![c] =
                     {[m EXCEPT !.userId = session, !.authenticated = TRUE] : m \in @}]
            /\ sent' = sendSuccess(NoSends, c)
            /\ UNCHANGED <<status, closeCode>>
       ELSE /\ sent' = sendError(NoSends, c, "AUTH_FAILED")
            /\ status' = [status EXCEPT ![c] = IF @ = "open" THEN "closing" ELSE @]
            /\ closeCode' = [closeCode EXCEPT ![c] = IF status[c] = "open"
                                                     THEN PolicyViolation ELSE @]
            /\ UNCHANGED <<data, connectionMetadata>>
    /\ last' = Event("auth-result", c, "", token, {})
    /\ UNCHANGED <<videoProducers, videoConsumers, alertConsumers, metricsStreams, registrations>>
    /\ UNCHANGED trackerVars
    /\ UNCHANGED <<idle, pendingLookup>>

\* A broadcast placed before the registration loops.
StatusAudienceBefore(before, after) == before

\* handleRegister calls broadcastStatus after its registerConsumer loop: the
\* consumer maps it reads are those the loop has left.
StatusAudience(before, after) == after

\* The metadata handleRegister and handleSubscribe build from the message and
\* the identity on ws.data.
Metadata(c, streamId, clientType, produces, consumes) ==
    [streamId |-> streamId, clientType |-> clientType,
     produces |-> produces, consumes |-> consumes,
     authenticated |-> data[c].authenticated, userId |-> data[c].userId]

\* handleRegister: setMetadata, registerProducer and registerConsumer per
\* declared kind, the success reply, then the streaming status of a mobile
\* video producer.
HandleRegister(c, streamId, clientType, produces, consumes) ==
    /\ Quiet
    /\ status[c] = "open"
    /\ IF NotAuthenticated(c)
       THEN /\ sent' = sendError(NoSends, c, "AUTH_REQUIRED")
            /\ last' = Event("register", c, "", "", {})
            /\ UNCHANGED <<data, registryVars, registrations>>
       ELSE \E finalStreamId \in FinalStreamIds(streamId) :
            LET metadata == Metadata(c, finalStreamId, clientType, produces, consumes)
                cons == RegisterConsumed(Consumers, finalStreamId, c, consumes)
                streaming == clientType = "mobile" /\ "video-frame" \in produces
                audience == StatusAudience(Consumers, cons)
                targets == IF streaming THEN StatusTargets(audience, finalStreamId) ELSE <<>>
            IN \E fail \in SUBSET Range(targets) :
               /\ registrations < MaxRegistrations
               /\ registrations' = registrations + 1
               /\ connectionMetadata' = [connectionMetadata EXCEPT ![c] = {metadata}]
               /\ data' = [data EXCEPT ![c] = metadata]
               /\ videoProducers' = RegisterProduced(videoProducers, finalStreamId, c, produces)
               /\ videoConsumers' = cons.video
               /\ alertConsumers' = cons.alert
               /\ sent' = IF streaming
                          THEN broadcastStatus(sendSuccess(NoSends, c), audience,
                                               finalStreamId, "streaming", fail)
                          ELSE sendSuccess(NoSends, c)
               /\ last' = Event("register", c, finalStreamId, "", fail)
    /\ UNCHANGED <<status, closeCode, pendingAuth, metricsStreams>>
    /\ UNCHANGED trackerVars
    /\ idle' = [idle EXCEPT ![c] = 0]
    /\ UNCHANGED pendingLookup

\* The produces lists subscribe messages carry, {} when they carry none.
SubscribeDeclared == {{}, {"video-frame"}, {"alert"}}

\* A subscribe that stores the produces list of its message.
SubscribeProducesDeclared(declared) == declared

\* handleSubscribe does not read message.produces: the record gets produces: [].
SubscribeProduces(declared) == {}

\* handleSubscribe: metadata with an empty produce list, registerConsumer per
\* declared kind, the success reply.  A message without a consumes list makes
\* the loop over it throw after setMetadata; routeMessage catches that.
HandleSubscribe(c, streamId, clientType, consumes) ==
    /\ Quiet
    /\ status[c] = "open"
    /\ IF NotAuthenticated(c)
       THEN /\ sent' = sendError(NoSends, c, "AUTH_REQUIRED")
            /\ UNCHANGED <<data, registryVars, registrations>>
            /\ last' = Event("subscribe", c, streamId, "", {})
       ELSE \E declared \in SubscribeDeclared :
            LET metadata == Metadata(c, streamId, clientType,
                                     SubscribeProduces(declared), consumes)
                cons == RegisterConsumed(Consumers, streamId, c, consumes)
            IN /\ registrations < MaxRegistrations
               /\ registrations' = registrations + 1
               /\ connectionMetadata' = [connectionMetadata EXCEPT ![c] = {metadata}]
               /\ data' = [data EXCEPT ![c] = metadata]
               /\ UNCHANGED videoProducers
               /\ IF NotIterable(consumes)
                  THEN /\ UNCHANGED <<videoConsumers, alertConsumers>>
                       /\ sent' = RoutingFailure(NoSends, c)
                       /\ last' = Outcome(Event("subscribe", c, streamId, "", {}), "threw")
                  ELSE /\ videoConsumers' = cons.video
                       /\ alertConsumers' = cons.alert
                       /\ sent' = sendSuccess(NoSends, c)
                       /\ last' = Outcome(Event("subscribe", c, streamId, "", {}),
                                          IF declared = {} THEN ""
                                          ELSE "produces-declared")
    /\ UNCHANGED <<status, closeCode, pendingAuth, metricsStreams>>
    /\ UNCHANGED trackerVars
    /\ idle' = [idle EXCEPT ![c] = 0]
    /\ UNCHANGED pendingLookup

\* A fan-out that leaves out the connection the message came from.
RecipientsButSender(consumers, ws) == SelectSeq(consumers, LAMBDA d : d # ws)

\* const consumers = getConsumers(...); for (const consumer of consumers): the
\* loop goes over every consumer, the sender ws included when it is one.
Recipients(consumers, ws) == consumers

\* handleVideoFrame: trackFrame, then JSON.stringify(message) to the video
\* consumers of message.streamId; received is the message as the client sent it.
RelayVideoFrame(c, message, received) ==
    /\ Quiet
    /\ status[c] = "open"
    /\ IF AuthRequired(c)
       THEN /\ sent' = sendError(NoSends, c, "AUTH_REQUIRED")
            /\ last' = Received(Event("video-frame", c, message.streamId, "", {}),
                                received)
            /\ UNCHANGED metricsStreams
       ELSE LET consumers == Recipients(getConsumers(message.streamId, "video-frame"), c)
            IN \E fail \in SUBSET Range(consumers) :
               /\ metricsStreams' = metricsStreams \cup {message.streamId}
               /\ sent' = Push(NoSends, FanOut(consumers, fail), message)
               /\ last' = Received(Event("video-frame", c, message.streamId, "", fail),
                                   received)
    /\ UNCHANGED <<status, closeCode, data, pendingAuth, registryVars, registrations>>
    /\ UNCHANGED trackerVars
    /\ idle' = [idle EXCEPT ![c] = 0]
    /\ UNCHANGED pendingLookup

\* A video-frame whose timestamp and payload play no part.
HandleVideoFrame(c, streamId) ==
    RelayVideoFrame(c, DataMsg("video-frame", streamId), NoMessage)

\* handleAlert: JSON.stringify(message) to the alert consumers of
\* message.streamId; received is the message as the client sent it.
RelayAlert(c, message, received) ==
    /\ Quiet
    /\ status[c] = "open"
    /\ IF AuthRequired(c)
       THEN /\ sent' = sendError(NoSends, c, "AUTH_REQUIRED")
            /\ last' = Received(Event("alert", c, message.streamId, "", {}), received)
       ELSE LET consumers == Recipients(getConsumers(message.streamId, "alert"), c)
            IN \E fail \in SUBSET Range(consumers) :
               /\ sent' = Push(NoSends, FanOut(consumers, fail), message)
               /\ last' = Received(Event("alert", c, message.streamId, "", fail),
                                   received)
    /\ UNCHANGED <<status, closeCode, data, pendingAuth, registryVars, metricsStreams, registrations>>
    /\ UNCHANGED trackerVars
    /\ idle' = [idle EXCEPT ![c] = 0]
    /\ UNCHANGED pendingLookup

\* An alert whose timestamp and payload play no part.
HandleAlert(c, streamId) == RelayAlert(c, DataMsg("alert", streamId), NoMessage)

\* JSON.parse gave an object with a timestamp property.
HasTimestamp(m) == "timestamp" \in DOMAIN m

\* m with its timestamp property set to t, the other properties as they are.
WithTimestamp(m, t) ==
    [f \in DOMAIN m \cup {"timestamp"} |-> IF f = "timestamp" THEN t ELSE m[f]]

\* if (!parsedMessage.timestamp) parsedMessage.timestamp = Date.now(): the
\* test is true of a missing property and of the number 0.
FillTimestamp(m, now) ==
    IF ~HasTimestamp(m) \/ m.timestamp = 0 THEN WithTimestamp(m, now) ELSE m

\* websocket.message for a video-frame or an alert: JSON.parse, the timestamp
\* default, then routeMessage to the handler of message.type; now is Date.now().
WebsocketMessage(c, raw, now) ==
    LET parsedMessage == FillTimestamp(raw, now)
    IN IF parsedMessage.type = "video-frame"
       THEN RelayVideoFrame(c, parsedMessage, raw)
       ELSE RelayAlert(c, parsedMessage, raw)

\* A default branch that answers nothing.
HandleUnknownSilent(c) ==
    /\ Quiet
    /\ status[c] = "open"
    /\ sent' = NoSends
    /\ last' = Event("unknown", c, "", "", {})
    /\ UNCHANGED <<status, closeCode, data, pendingAuth, registryVars, metricsStreams, registrations>>
    /\ UNCHANGED trackerVars
    /\ idle' = [idle EXCEPT ![c] = 0]
    /\ UNCHANGED pendingLookup

\* routeMessage, default branch: a message of no known kind.
HandleUnknown(c) ==
    /\ Quiet
    /\ status[c] = "open"
    /\ sent' = sendError(NoSends, c, "UNKNOWN_MESSAGE_TYPE")
    /\ last' = Event("unknown", c, "", "", {})
    /\ UNCHANGED <<status, closeCode, data, pendingAuth, registryVars, metricsStreams, registrations>>
    /\ UNCHANGED trackerVars
    /\ idle' = [idle EXCEPT ![c] = 0]
    /\ UNCHANGED pendingLookup

\* websocket.close -> handleDisconnect: removeConnection with the metadata
\* getMetadata returns, the tracker entry of a video producer's stream is
\* dropped, and a mobile video producer's stream is announced offline.  With a
\* record that has no consumes list, removeConnection throws after its producer
\* part and the close handler ends there.
HandleDisconnect(c) ==
    /\ Quiet
    /\ status[c] \in {"open", "closing"}
    /\ status' = [status EXCEPT ![c] = "closed"]
    /\ LET metadata == getMetadata(c)
           cons == RemoveConsumer(Consumers, c, metadata)
           producing == "video-frame" \in metadata.produces
           offline == metadata.clientType = "mobile" /\ producing
           targets == IF offline THEN StatusTargets(cons, metadata.streamId) ELSE <<>>
       IN IF NotIterable(metadata.consumes)
          THEN /\ videoProducers' = RemoveProducer(videoProducers, c, metadata)
               /\ UNCHANGED <<videoConsumers, alertConsumers, connectionMetadata,
                              metricsStreams>>
               /\ sent' = NoSends
               /\ last' = Outcome(Event("close", c, metadata.streamId, "", {}), "threw")
          ELSE \E fail \in SUBSET Range(targets) :
               /\ videoProducers' = RemoveProducer(videoProducers, c, metadata)
               /\ videoConsumers' = cons.video
               /\ alertConsumers' = cons.alert
               /\ connectionMetadata' = [connectionMetadata EXCEPT ![c] = {}]
               /\ metricsStreams' = IF producing THEN metricsStreams \ {metadata.streamId}
                                    ELSE metricsStreams
               /\ sent' = IF offline
                          THEN broadcastStatus(NoSends, cons, metadata.streamId, "offline", fail)
                          ELSE NoSends
               /\ last' = Event("close", c, metadata.streamId, "", fail)
    /\ UNCHANGED <<closeCode, data, pendingAuth, registrations>>
    /\ UNCHANGED trackerVars
    /\ UNCHANGED <<idle, pendingLookup>>

\* ------------------------------------------------------------ transport
\* fetch: server.upgrade on one of the two WebSocket paths, then websocket.open.
Open(c, path) ==
    /\ Quiet
    /\ status[c] = "idle"
    /\ status' = [status EXCEPT ![c] = "open"]
    /\ data' = [data EXCEPT ![c] = UpgradeData(path)]
    /\ sent' = NoSends
    /\ last' = Event("open", c, "", "", {})
    /\ UNCHANGED <<closeCode, pendingAuth, registryVars, metricsStreams, registrations>>
    /\ UNCHANGED trackerVars
    /\ idle' = [idle EXCEPT ![c] = 0]
    /\ UNCHANGED pendingLookup

\* The handler of the last event has returned; what it sent is on the wire.
Return ==
    /\ ~Quiet
    /\ sent' = NoSends
    /\ last' = Event("idle", None, "", "", {})
    /\ UNCHANGED <<status, closeCode, data, pendingAuth, registryVars, metricsStreams,
                   registrations>>
    /\ UNCHANGED trackerVars
    /\ UNCHANGED <<idle, pendingLookup>>

\* websocket.idleTimeout: the clock advances; the runtime closes a connection
\* from which no message arrived for the whole idle window.  Every message
\* received restarts the window of its connection.
Tick ==
    /\ Quiet
    /\ \E c \in Conns : status[c] = "open"
    /\ UNCHANGED trackerVars
    /\ idle' = [c \in Conns |-> IF status[c] = "open" THEN idle[c] + 1 ELSE idle[c]]
    /\ status' = [c \in Conns |-> IF status[c] = "open" /\ idle[c] + 1 >= IdleTicks
                                  THEN "closing" ELSE status[c]]
    /\ sent' = NoSends
    /\ last' = Event("tick", None, "", "", {})
    /\ UNCHANGED <<closeCode, data, pendingAuth, registryVars, metricsStreams,
                   registrations, pendingLookup>>

Init ==
    /\ status = [c \in Conns |-> "idle"]
    /\ closeCode = [c \in Conns |-> 0]
    /\ data = [c \in Conns |-> UpgradeData("/streams/register")]
    /\ pendingAuth = [c \in Conns |-> [t \in Tokens |-> 0]]
    /\ videoProducers = [s \in StreamIds |-> None]
    /\ videoConsumers = [s \in StreamIds |-> <<>>]
    /\ alertConsumers = [s \in StreamIds |-> <<>>]
    /\ connectionMetadata = [c \in Conns |-> {}]
    /\ metricsStreams = {}
    /\ sent = NoSends
    /\ registrations = 0
    /\ idle = [c \in Conns |-> 0]
    /\ pendingLookup = [c \in Conns |-> <<>>]
    /\ streams = [s \in StreamIds |-> {}]
    /\ clock = 0
    /\ last = Event("idle", None, "", "", {})

\* The connection that connects next: connections are interchangeable, so they
\* are numbered in the order of their upgrade requests.
NextToConnect ==
    {ConnOrder[i] : i \in {j \in DOMAIN ConnOrder :
        /\ status[ConnOrder[j]] = "idle"
        /\ \A k \in 1..(j - 1) : status[ConnOrder[k]] # "idle"}}

\* The messages clients send in the runs explored.
RegisterInputs ==
    {[streamId |-> s, clientType |-> ct, produces |-> p, consumes |-> q] :
        s \in StreamIds \cup {""}, ct \in ClientTypes,
        p \in {{}, {"video-frame"}}, q \in SUBSET Kinds}

SubscribeInputs ==
    {[streamId |-> s, clientType |-> "dashboard", consumes |-> q] :
        s \in StreamIds, q \in SUBSET Kinds}

\* The stream video frames are sent for.
FrameStreams == {"s1"}

\* Clients that wait for the answer to an auth message before sending another.
Next ==
    \/ \E c \in NextToConnect, path \in Paths : Open(c, path)
    \/ \E c \in Conns, token \in {"tokA", "bad"} : HandleAuth(c, token, 1)
    \/ \E c \in Conns, token \in Tokens : AuthResume(c, token)
    \/ \E c \in Conns, m \in RegisterInputs :
          HandleRegister(c, m.streamId, m.clientType, m.produces, m.consumes)
    \/ \E c \in Conns, m \in SubscribeInputs :
          HandleSubscribe(c, m.streamId, m.clientType, m.consumes)
    \/ \E c \in Conns, streamId \in FrameStreams : HandleVideoFrame(c, streamId)
    \/ \E c \in Conns, streamId \in StreamIds : HandleAlert(c, streamId)
    \/ \E c \in Conns : HandleUnknown(c)
    \/ \E c \in Conns : HandleDisconnect(c)
    \/ Return

Spec == Init /\ [][Next]_vars

\* The handshake with auth messages sent back to back, so that several
\* verifications are in flight; one producer registration and one viewer
\* subscription as the registry traffic.
AuthRegisterInputs ==
    {[streamId |-> "s1", clientType |-> "mobile",
      produces |-> {"video-frame"}, consumes |-> {"alert"}]}

AuthSubscribeInputs ==
    {[streamId |-> "s1", clientType |-> "dashboard", consumes |-> Kinds]}

NextAuth ==
    \/ \E c \in NextToConnect, path \in Paths : Open(c, path)
    \/ \E c \in Conns, token \in Tokens : HandleAuth(c, token, MaxInFlight)
    \/ \E c \in Conns, token \in Tokens : AuthResume(c, token)
    \/ \E c \in Conns, m \in AuthRegisterInputs :
          HandleRegister(c, m.streamId, m.clientType, m.produces, m.consumes)
    \/ \E c \in Conns, m \in AuthSubscribeInputs :
          HandleSubscribe(c, m.streamId, m.clientType, m.consumes)
    \/ \E c \in Conns : HandleDisconnect(c)
    \/ Return

AuthSpec == Init /\ [][NextAuth]_vars

\* The relay scenario: producer devices that register for s1 (video out,
\* alerts in), viewers that subscribe to s1 for both kinds, frames and alerts
\* for s1.
NextRelay ==
    \/ \E c \in NextToConnect, path \in Paths : Open(c, path)
    \/ \E c \in Conns : HandleAuth(c, "tokA", 1)
    \/ \E c \in Conns, token \in Tokens : AuthResume(c, token)
    \/ \E c \in Conns, m \in AuthRegisterInputs :
          HandleRegister(c, m.streamId, m.clientType, m.produces, m.consumes)
    \/ \E c \in Conns, m \in AuthSubscribeInputs :
          HandleSubscribe(c, m.streamId, m.clientType, m.consumes)
    \/ \E c \in Conns : HandleVideoFrame(c, "s1")
    \/ \E c \in Conns : HandleAlert(c, "s1")
    \/ \E c \in Conns : HandleDisconnect(c)
    \/ Return

RelaySpec == Init /\ [][NextRelay]_vars

\* Timestamps clients put in their messages, and values of Date.now().
Timestamps == {0, 1, 2}
ServerClock == {10, 11}

\* Video frames and alerts for s1 as clients send them without a timestamp.
Untimed ==
    [type : {"video-frame"}, streamId : FrameStreams, data : {"f1", "f2"}]
        \cup [type : {"alert"}, streamId : FrameStreams, severity : {"high"},
              message : {"motion"}]

ClientMessages == Untimed \cup {WithTimestamp(m, t) : m \in Untimed, t \in Timestamps}

\* The relay scenario with the data messages in full: their payload and their
\* timestamp, as websocket.message receives them.
NextStamp ==
    \/ \E c \in NextToConnect, path \in Paths : Open(c, path)
    \/ \E c \in Conns : HandleAuth(c, "tokA", 1)
    \/ \E c \in Conns, token \in Tokens : AuthResume(c, token)
    \/ \E c \in Conns, m \in AuthRegisterInputs :
          HandleRegister(c, m.streamId, m.clientType, m.produces, m.consumes)
    \/ \E c \in Conns, m \in AuthSubscribeInputs :
          HandleSubscribe(c, m.streamId, m.clientType, m.consumes)
    \/ \E c \in Conns, raw \in ClientMessages, now \in ServerClock :
          WebsocketMessage(c, raw, now)
    \/ \E c \in Conns : HandleDisconnect(c)
    \/ Return

StampSpec == Init /\ [][NextStamp]_vars

\* ------------------------------------------------------------ MetricsTracker
fpsUpdateInterval == 1000

\* The frames tracked for one stream within one window, at most.
MaxFrameCount == 3

\* The time the tracker is followed for, in ms.
MaxClock == 3000

\* The times between two readings of Date.now(), in ms.
ClockSteps == {400, 600, 1000, 1700}

\* The entry trackFrame creates for a stream it has none for.
NewMetrics(streamId, now) ==
    [streamId |-> streamId, frameCount |-> 0, lastFrameTime |-> now,
     startTime |-> now, fps |-> 0, lastFpsUpdate |-> now]

\* Math.round(num / den) for num >= 0 and den > 0: the nearest integer, a
\* half going up.
MathRound(num, den) == (2 * num + den) \div (2 * den)

\* A tracker that waits for more than the interval.
UpdateDueAfterInterval(timeSinceLastUpdate) == timeSinceLastUpdate > fpsUpdateInterval

\* if (timeSinceLastUpdate >= this.fpsUpdateInterval)
UpdateDue(timeSinceLastUpdate) == timeSinceLastUpdate >= fpsUpdateInterval

\* trackFrame on the entry of the stream: frameCount++, the rate when it is
\* due (frames / (elapsed / 1000), rounded; the window restarts), lastFrameTime.
Tracked(metrics, now) ==
    LET frameCount == metrics.frameCount + 1
        timeSinceLastUpdate == now - metrics.lastFpsUpdate
    IN IF UpdateDue(timeSinceLastUpdate)
       THEN [metrics EXCEPT !.fps = MathRound(frameCount * 1000, timeSinceLastUpdate),
                            !.lastFpsUpdate = now,
                            !.frameCount = 0,
                            !.lastFrameTime = now]
       ELSE [metrics EXCEPT !.frameCount = frameCount, !.lastFrameTime = now]

\* this.streams.get(streamId), {} for undefined.
getStreamMetrics(streamId) == streams[streamId]

\* this.streams.get(streamId)?.fps || 0
getFPS(streamId) ==
    IF getStreamMetrics(streamId) = {} THEN 0
    ELSE (CHOOSE m \in getStreamMetrics(streamId) : TRUE).fps

\* The variables no tracker operation touches.
routerVars == <<status, closeCode, data, pendingAuth, registryVars, sent, registrations,
                idle, pendingLookup>>

\* trackFrame(streamId) at the time the clock shows.
trackFrame(streamId) ==
    /\ \A m \in streams[streamId] : m.frameCount < MaxFrameCount
    /\ LET metrics == IF streams[streamId] = {} THEN NewMetrics(streamId, clock)
                      ELSE CHOOSE m \in streams[streamId] : TRUE
       IN streams' = [streams EXCEPT ![streamId] = {Tracked(metrics, clock)}]
    /\ metricsStreams' = metricsStreams \cup {streamId}
    /\ last' = Event("trackFrame", None, streamId, "", {})
    /\ UNCHANGED <<routerVars, clock>>

\* removeStream(streamId): this.streams.delete(streamId).
removeStream(streamId) ==
    /\ streams' = [streams EXCEPT ![streamId] = {}]
    /\ metricsStreams' = metricsStreams \ {streamId}
    /\ last' = Event("removeStream", None, streamId, "", {})
    /\ UNCHANGED <<routerVars, clock>>

\* Time passes between two calls of the tracker.
Elapse(ms) ==
    /\ clock + ms <= MaxClock
    /\ clock' = clock + ms
    /\ last' = Event("clock", None, "", "", {})
    /\ UNCHANGED <<routerVars, streams, metricsStreams>>

\* The tracker on its own: frames of the streams at the times the clock
\* reaches, and streams removed.
NextTracker ==
    \/ \E ms \in ClockSteps : Elapse(ms)
    \/ \E streamId \in StreamIds : trackFrame(streamId)
    \/ \E streamId \in StreamIds : removeStream(streamId)

TrackerSpec == Init /\ [][NextTracker]_vars

\* The handshake under the clock: connections that authenticate or not, send
\* frames and unknown messages, and the idle timeout.  Time keeps advancing,
\* every handler returns, every verification resolves and the close handler of
\* a connection the server closed runs.
NextIdle ==
    \/ \E c \in NextToConnect, path \in Paths : Open(c, path)
    \/ \E c \in Conns, token \in {"tokA", "bad"} : HandleAuth(c, token, 1)
    \/ \E c \in Conns, token \in Tokens : AuthResume(c, token)
    \/ \E c \in Conns : HandleVideoFrame(c, "s1")
    \/ \E c \in Conns : HandleUnknown(c)
    \/ \E c \in Conns : HandleDisconnect(c)
    \/ Tick
    \/ Return

IdleSpec ==
    /\ Init /\ [][NextIdle]_vars
    /\ SF_vars(Tick)
    /\ WF_vars(Return)
    /\ \A c \in Conns :
          /\ WF_vars(\E token \in Tokens : AuthResume(c, token))
          /\ WF_vars(status[c] = "closing" /\ HandleDisconnect(c))

\* ------------------------------------------------------------ ownership-checking dispatcher
\* The client types the dispatcher distinguishes.
OwnerClientTypes == {"mobile", "dashboard", "ml-service"}

\* The rows of the videoStream table: the user each stream belongs to.
StreamOwner == [s \in StreamIds |-> IF s = "s1" THEN "u1" ELSE "u2"]

\* A lookup that finds a row for every caller.
OwnsStreamAlways(userId, streamId) == TRUE

\* select from videoStream where id = streamId and userId = caller, limit 1:
\* stream.length # 0
OwnsStream(userId, streamId) == StreamOwner[streamId] = userId

\* handleRegister queries the store for a mobile video producer and for a
\* consumer of video frames that is not the ML service.
RegisterNeedsLookup(clientType, produces, consumes) ==
    \/ clientType = "mobile" /\ "video-frame" \in produces
    \/ clientType # "ml-service" /\ "video-frame" \in consumes

\* handleSubscribe queries the store for every client but the ML service.
SubscribeNeedsLookup(clientType) == clientType # "ml-service"

\* The data object the /ws upgrade attaches: the identity of the session.
OwnerUpgradeData(session) ==
    [streamId |-> "", clientType |-> "mobile", produces |-> {}, consumes |-> {},
     userId |-> session]

Request(op, streamId, clientType, produces, consumes) ==
    [op |-> op, streamId |-> streamId, clientType |-> clientType,
     produces |-> produces, consumes |-> consumes]

InLookup == LET Sum[S \in SUBSET Conns] ==
                    IF S = {} THEN 0
                    ELSE LET c == CHOOSE d \in S : TRUE
                         IN Len(pendingLookup[c]) + Sum[S \ {c}]
            IN Sum[Conns]

\* fetch on /ws: the session is verified before the upgrade; without a session
\* the request is answered 401 and there is no connection.
OwnerOpen(c, token) ==
    /\ Quiet
    /\ status[c] = "idle"
    /\ verifySessionToken(token) # None
    /\ status' = [status EXCEPT ![c] = "open"]
    /\ data' = [data EXCEPT ![c] = OwnerUpgradeData(verifySessionToken(token))]
    /\ sent' = NoSends
    /\ last' = Event("open", c, "", token, {})
    /\ UNCHANGED trackerVars
    /\ idle' = [idle EXCEPT ![c] = 0]
    /\ UNCHANGED <<closeCode, pendingAuth, registryVars, metricsStreams, registrations,
                   pendingLookup>>

\* The part of handleRegister and handleSubscribe after the ownership checks:
\* setMetadata, registerProducer and registerConsumer per declared kind, the
\* success reply, and the streaming status of a mobile video producer.
OwnerComplete(c, r, op) ==
    LET metadata == [streamId |-> r.streamId, clientType |-> r.clientType,
                     produces |-> r.produces, consumes |-> r.consumes,
                     userId |-> data[c].userId]
        cons == RegisterConsumed(Consumers, r.streamId, c, r.consumes)
        streaming == /\ r.op = "register"
                     /\ r.clientType = "mobile" /\ "video-frame" \in r.produces
        targets == IF streaming THEN StatusTargets(cons, r.streamId) ELSE <<>>
    IN \E fail \in SUBSET Range(targets) :
       /\ registrations < MaxRegistrations
       /\ registrations' = registrations + 1
       /\ connectionMetadata' = [connectionMetadata EXCEPT ![c] = {metadata}]
       /\ data' = [data EXCEPT ![c] = metadata]
       /\ videoProducers' = RegisterProduced(videoProducers, r.streamId, c, r.produces)
       /\ videoConsumers' = cons.video
       /\ alertConsumers' = cons.alert
       /\ sent' = IF streaming
                  THEN broadcastStatus(sendSuccess(NoSends, c), cons, r.streamId,
                                       "streaming", fail)
                  ELSE sendSuccess(NoSends, c)
       /\ last' = Outcome(Event(op, c, r.streamId, "", fail), "accepted")

\* handleRegister and handleSubscribe up to their first await: the identity
\* check, then either the ownership query is started or, when none is needed,
\* the registration is done at once.
OwnerReceive(c, r, needsLookup) ==
    /\ Quiet
    /\ status[c] = "open"
    /\ IF data[c].userId = None
       THEN /\ sent' = sendError(NoSends, c, "AUTH_REQUIRED")
            /\ last' = Outcome(Event(r.op, c, r.streamId, "", {}), "auth-required")
            /\ UNCHANGED <<data, registryVars, registrations, pendingLookup>>
       ELSE IF needsLookup
            THEN /\ InLookup < MaxInFlight
                 /\ pendingLookup' = [pendingLookup EXCEPT ![c] = Append(@, r)]
                 /\ sent' = NoSends
                 /\ last' = Outcome(Event(r.op, c, r.streamId, "", {}), "pending")
                 /\ UNCHANGED <<data, registryVars, registrations>>
            ELSE /\ OwnerComplete(c, r, r.op)
                 /\ UNCHANGED pendingLookup
    /\ UNCHANGED trackerVars
    /\ idle' = [idle EXCEPT ![c] = 0]
    /\ UNCHANGED <<status, closeCode, pendingAuth, metricsStreams>>

OwnerRegister(c, streamId, clientType, produces, consumes) ==
    OwnerReceive(c, Request("register", streamId, clientType, produces, consumes),
                 RegisterNeedsLookup(clientType, produces, consumes))

OwnerSubscribe(c, streamId, clientType, consumes) ==
    OwnerReceive(c, Request("subscribe", streamId, clientType, {}, consumes),
                 SubscribeNeedsLookup(clientType))

\* handleRegister and handleSubscribe after the await: the store has answered
\* the i-th pending query of c, or failed.  No row: UNAUTHORIZED; a failure:
\* SERVER_ERROR; a row: the registration is done.
OwnerLookupDone(c, i, dbFails) ==
    /\ Quiet
    /\ i \in DOMAIN pendingLookup[c]
    /\ pendingLookup[c][i].op \in {"register", "subscribe"}
    /\ LET r == pendingLookup[c][i]
           resumed == IF r.op = "register" THEN "register-resume" ELSE "subscribe-resume"
       IN /\ pendingLookup' = [pendingLookup EXCEPT ![c] =
                                  SubSeq(@, 1, i - 1) \o SubSeq(@, i + 1, Len(@))]
          /\ IF dbFails
             THEN /\ sent' = sendError(NoSends, c, "SERVER_ERROR")
                  /\ last' = Outcome(Event(resumed, c, r.streamId, "", {}), "db-error")
                  /\ UNCHANGED <<data, registryVars, registrations>>
             ELSE IF ~OwnsStream(data[c].userId, r.streamId)
                  THEN /\ sent' = sendError(NoSends, c, "UNAUTHORIZED")
                       /\ last' = Outcome(Event(resumed, c, r.streamId, "", {}), "not-owned")
                       /\ UNCHANGED <<data, registryVars, registrations>>
                  ELSE OwnerComplete(c, r, resumed)
    /\ UNCHANGED trackerVars
    /\ UNCHANGED <<status, closeCode, pendingAuth, metricsStreams, idle>>

\* handleAlert of the dispatcher up to its await: the insert into the alert
\* table is started.  The handler checks neither identity nor role.
OwnerAlert(c, streamId) ==
    /\ Quiet
    /\ status[c] = "open"
    /\ InLookup < MaxInFlight
    /\ pendingLookup' = [pendingLookup EXCEPT ![c] =
                            Append(@, Request("alert", streamId, "", {}, {}))]
    /\ sent' = NoSends
    /\ last' = Outcome(Event("alert-received", c, streamId, "", {}), "pending")
    /\ UNCHANGED trackerVars
    /\ idle' = [idle EXCEPT ![c] = 0]
    /\ UNCHANGED <<status, closeCode, data, pendingAuth, registryVars, metricsStreams,
                   registrations>>

\* An alert handler that gives up when the insert fails.
BroadcastOnlyIfStored(dbFails) == ~dbFails

\* catch (error) { log } around the insert: "Continue with broadcast even if
\* storage fails".
BroadcastAfterStore(dbFails) == TRUE

\* handleAlert after the await: the insert has succeeded or failed; then the
\* fan-out to the alert consumers the stream has now.
OwnerAlertStored(c, i, dbFails) ==
    /\ Quiet
    /\ i \in DOMAIN pendingLookup[c]
    /\ pendingLookup[c][i].op = "alert"
    /\ LET r == pendingLookup[c][i]
           consumers == IF BroadcastAfterStore(dbFails)
                        THEN getConsumers(r.streamId, "alert") ELSE <<>>
       IN \E fail \in SUBSET Range(consumers) :
          /\ pendingLookup' = [pendingLookup EXCEPT ![c] =
                                  SubSeq(@, 1, i - 1) \o SubSeq(@, i + 1, Len(@))]
          /\ sent' = Push(NoSends, FanOut(consumers, fail), DataMsg("alert", r.streamId))
          /\ last' = Outcome(Event("alert-stored", c, r.streamId, "", fail),
                             IF dbFails THEN "db-error" ELSE "stored")
    /\ UNCHANGED trackerVars
    /\ UNCHANGED <<status, closeCode, data, pendingAuth, registryVars, metricsStreams,
                   registrations, idle>>

\* handleDisconnect of the dispatcher: removeConnection, then the offline
\* status of a mobile video producer's stream.
OwnerDisconnect(c) ==
    /\ Quiet
    /\ status[c] \in {"open", "closing"}
    /\ status' = [status EXCEPT ![c] = "closed"]
    /\ LET metadata == getMetadata(c)
           cons == RemoveConsumer(Consumers, c, metadata)
           offline == metadata.clientType = "mobile" /\ "video-frame" \in metadata.produces
           targets == IF offline THEN StatusTargets(cons, metadata.streamId) ELSE <<>>
       IN \E fail \in SUBSET Range(targets) :
          /\ videoProducers' = RemoveProducer(videoProducers, c, metadata)
          /\ videoConsumers' = cons.video
          /\ alertConsumers' = cons.alert
          /\ connectionMetadata' = [connectionMetadata EXCEPT ![c] = {}]
          /\ sent' = IF offline
                     THEN broadcastStatus(NoSends, cons, metadata.streamId, "offline", fail)
                     ELSE NoSends
          /\ last' = Event("close", c, metadata.streamId, "", fail)
    /\ UNCHANGED trackerVars
    /\ UNCHANGED <<closeCode, data, pendingAuth, metricsStreams, registrations, idle,
                   pendingLookup>>

\* The messages clients of the dispatcher send: producer devices, viewers that
\* register for both kinds or for alerts only, and the ML service.
OwnerRoles ==
    {[clientType |-> "mobile", produces |-> {"video-frame"}, consumes |-> {"alert"}],
     [clientType |-> "dashboard", produces |-> {}, consumes |-> Kinds],
     [clientType |-> "dashboard", produces |-> {}, consumes |-> {"alert"}],
     [clientType |-> "ml-service", produces |-> {}, consumes |-> Kinds]}

OwnerRegisterInputs ==
    {[streamId |-> s, clientType |-> r.clientType, produces |-> r.produces,
      consumes |-> r.consumes] : s \in StreamIds, r \in OwnerRoles}

OwnerSubscribeInputs ==
    {[streamId |-> s, clientType |-> ct, consumes |-> Kinds] :
        s \in StreamIds, ct \in OwnerClientTypes \ {"mobile"}}

NextOwner ==
    \/ \E c \in NextToConnect, token \in Tokens : OwnerOpen(c, token)
    \/ \E c \in Conns, m \in OwnerRegisterInputs :
          OwnerRegister(c, m.streamId, m.clientType, m.produces, m.consumes)
    \/ \E c \in Conns, m \in OwnerSubscribeInputs :
          OwnerSubscribe(c, m.streamId, m.clientType, m.consumes)
    \/ \E c \in Conns, i \in 1..MaxInFlight, dbFails \in BOOLEAN :
          OwnerLookupDone(c, i, dbFails)
    \/ \E c \in Conns : OwnerDisconnect(c)
    \/ Return

OwnerSpec == Init /\ [][NextOwner]_vars

\* Alerts through the dispatcher: the owner's device and dashboard on s1, the
\* ML service subscribed to s1, alerts for s1 whose insert may fail.
OwnerAlertRegisterInputs ==
    {[streamId |-> "s1", clientType |-> r.clientType, produces |-> r.produces,
      consumes |-> r.consumes] :
        r \in {x \in OwnerRoles : x.clientType # "ml-service" /\ x.consumes # {"alert"}}}

OwnerAlertSubscribeInputs ==
    {[streamId |-> "s1", clientType |-> "ml-service", consumes |-> Kinds]}

NextOwnerAlert ==
    \/ \E c \in NextToConnect, token \in Tokens : OwnerOpen(c, token)
    \/ \E c \in Conns, m \in OwnerAlertRegisterInputs :
          OwnerRegister(c, m.streamId, m.clientType, m.produces, m.consumes)
    \/ \E c \in Conns, m \in OwnerAlertSubscribeInputs :
          OwnerSubscribe(c, m.streamId, m.clientType, m.consumes)
    \/ \E c \in Conns, i \in 1..MaxInFlight, dbFails \in BOOLEAN :
          OwnerLookupDone(c, i, dbFails)
    \/ \E c \in Conns : OwnerAlert(c, "s1")
    \/ \E c \in Conns, i \in 1..MaxInFlight, dbFails \in BOOLEAN :
          OwnerAlertStored(c, i, dbFails)
    \/ \E c \in Conns : OwnerDisconnect(c)
    \/ Return

OwnerAlertSpec == Init /\ [][NextOwnerAlert]_vars

\* Subscribe messages that may lack their consumes list, next to a producer
\* registration, frames and closes.
FaultSubscribeInputs ==
    {[streamId |-> "s1", clientType |-> "dashboard", consumes |-> q] :
        q \in {Kinds, Undefined}}

NextFault ==
    \/ \E c \in NextToConnect, path \in Paths : Open(c, path)
    \/ \E c \in Conns : HandleAuth(c, "tokA", 1)
    \/ \E c \in Conns, token \in Tokens : AuthResume(c, token)
    \/ \E c \in Conns, m \in AuthRegisterInputs :
          HandleRegister(c, m.streamId, m.clientType, m.produces, m.consumes)
    \/ \E c \in Conns, m \in FaultSubscribeInputs :
          HandleSubscribe(c, m.streamId, m.clientType, m.consumes)
    \/ \E c \in Conns : HandleVideoFrame(c, "s1")
    \/ \E c \in Conns : HandleDisconnect(c)
    \/ Return

FaultSpec == Init /\ [][NextFault]_vars

\* ------------------------------------------------------------ claims
\* The connections in a consumer set of stream s, whatever the kind.
InSomeConsumerSet(c) ==
    \E s \in StreamIds : c \in Range(videoConsumers[s]) \cup Range(alertConsumers[s])

InSomeProducerSlot(c) == \E s \in StreamIds : videoProducers[s] = c

\* C1: getConsumers(s, k) never returns a connection whose disconnect has been
\* handled, for every stream s and kind k.
C1_NoClosedConsumer ==
    \A s \in StreamIds, k \in Kinds :
        \A c \in Range(getConsumers(s, k)) : status[c] # "closed"

\* C2: once the disconnect of c has been handled, no producer slot holds c and
\* the metadata map has no record for c.
C2_FullyUnlinked ==
    \A c \in Conns :
        status[c] = "closed" => ~InSomeProducerSlot(c) /\ connectionMetadata[c] = {}

\* C3: every connection in a producer slot, in a consumer set or with a
\* metadata record is authenticated, and so is the record; a connection that
\* sent register without authenticating is in none of them.
C3_AuthenticatedBeforeOperate ==
    \A c \in Conns :
        (InSomeProducerSlot(c) \/ InSomeConsumerSet(c) \/ connectionMetadata[c] # {})
            => /\ data[c].authenticated
               /\ \A m \in connectionMetadata[c] : m.authenticated /\ m.userId # None

\* A producer is registered, and another connection that never authenticated
\* has just had its register answered with AUTH_REQUIRED and is nowhere in the
\* registry.
C3_Witness ==
    /\ last.op = "register"
    /\ ~data[last.conn].authenticated
    /\ sent[last.conn] = <<ErrorMsg("AUTH_REQUIRED")>>
    /\ ~InSomeProducerSlot(last.conn) /\ ~InSomeConsumerSet(last.conn)
    /\ connectionMetadata[last.conn] = {}
    /\ \E d \in Conns \ {last.conn} : InSomeProducerSlot(d) /\ data[d].authenticated

\* C4: a register, subscribe, video-frame or alert from a connection that has
\* not authenticated is answered with AUTH_REQUIRED and nothing else happens:
\* registry and tracker unchanged, nothing sent to anyone else, sender left open.
C4_UnauthenticatedRejected ==
    [][(/\ last'.op \in {"register", "subscribe", "video-frame", "alert"}
        /\ ~data[last'.conn].authenticated)
       => /\ sent' = [d \in Conns |-> IF d = last'.conn
                                      THEN <<ErrorMsg("AUTH_REQUIRED")>> ELSE <<>>]
          /\ UNCHANGED <<registryVars, metricsStreams, status, closeCode, data, pendingAuth>>
          /\ status'[last'.conn] = "open"]_vars

\* An unauthenticated connection has just sent a video frame for a stream that
\* has a video consumer; the consumer got nothing.
C4_Witness ==
    /\ last.op = "video-frame"
    /\ ~data[last.conn].authenticated
    /\ sent[last.conn] = <<ErrorMsg("AUTH_REQUIRED")>>
    /\ \E d \in Range(videoConsumers[last.streamId]) : d # last.conn /\ sent[d] = <<>>

\* The message a fan-out event pushes, and the consumers it looks up.
FanOutEvent ==
    /\ last.op \in {"video-frame", "alert"}
    /\ data[last.conn].authenticated

StatusEvent ==
    /\ last.op \in {"register", "close"}
    /\ data[last.conn].authenticated
    /\ data[last.conn].clientType = "mobile"
    /\ "video-frame" \in data[last.conn].produces

\* C5: in the fan-out of a video-frame, alert or status event, every consumer
\* of the looked-up set whose send does not fail gets the message, whatever the
\* set of consumers whose send fails.
C5_FailureDoesNotAbortFanOut ==
    /\ FanOutEvent =>
         \A d \in Range(IF last.op = "video-frame" THEN videoConsumers[last.streamId]
                        ELSE alertConsumers[last.streamId]) \ last.fail :
             DataMsg(last.op, last.streamId) \in Range(sent[d])
    /\ StatusEvent =>
         \A d \in (Range(videoConsumers[last.streamId])
                     \cup Range(alertConsumers[last.streamId])) \ last.fail :
             StatusMsg(last.streamId, IF last.op = "register" THEN "streaming"
                                      ELSE "offline") \in Range(sent[d])

\* A video frame went to two consumers; the send to the first one registered
\* failed and the second one still got the frame.
C5_Witness ==
    /\ FanOutEvent
    /\ last.op = "video-frame"
    /\ Len(videoConsumers[last.streamId]) = 2
    /\ last.fail = {videoConsumers[last.streamId][1]}
    /\ sent[videoConsumers[last.streamId][2]] = <<DataMsg("video-frame", last.streamId)>>

\* C6: an accepted video-frame (alert) for stream s goes to the members of
\* consumers[s][video-frame] (consumers[s][alert]) and to nobody else: each
\* member whose send does not fail gets it once, every other connection gets
\* nothing.
C6_ExactFanOut ==
    FanOutEvent =>
        \A d \in Conns :
            sent[d] = IF d \in Range(IF last.op = "video-frame"
                                     THEN videoConsumers[last.streamId]
                                     ELSE alertConsumers[last.streamId]) \ last.fail
                      THEN <<DataMsg(last.op, last.streamId)>>
                      ELSE <<>>

\* A video frame for s1 reached its video consumer once, while a connection
\* registered only for alerts of s1 and no send failing got nothing.
C6_Witness ==
    /\ FanOutEvent
    /\ last.op = "video-frame"
    /\ last.fail = {}
    /\ \E d1 \in Range(videoConsumers[last.streamId]) :
          /\ sent[d1] = <<DataMsg("video-frame", last.streamId)>>
          /\ \E d2 \in Range(alertConsumers[last.streamId]) \ Range(videoConsumers[last.streamId]) :
                sent[d2] = <<>>

\* C7: removeConnection(c) clears producer[s] when and only when the slot holds
\* c: afterwards getProducer(s) is none iff c was the producer, else unchanged.
C7_ProducerClearedIffHeld ==
    [][\A c \in Conns :
         (last'.op = "close" /\ last'.conn = c)
            => \A s \in StreamIds :
                  videoProducers'[s] = IF videoProducers[s] = c THEN None
                                       ELSE videoProducers[s]]_vars

\* C8: the completion of an auth follows the verifier.  Accepted: the identity
\* is stored, authenticated is true, a success reply is sent.  Rejected: an
\* AUTH_FAILED error, the transport closed with code 1008, and authenticated is
\* left as it was.
C8_AuthFollowsVerifier ==
    [][last'.op = "auth-result" =>
         LET c == last'.conn
             session == verifySessionToken(last'.token)
         IN IF session # None
            THEN /\ data'[c].userId = session
                 /\ data'[c].authenticated
                 /\ sent' = [d \in Conns |-> IF d = c THEN <<SuccessMsg>> ELSE <<>>]
                 /\ UNCHANGED <<status, closeCode>>
            ELSE /\ sent' = [d \in Conns |-> IF d = c THEN <<ErrorMsg("AUTH_FAILED")>>
                                             ELSE <<>>]
                 /\ status'[c] \in {"closing", "closed"}
                 /\ status[c] = "open" => status'[c] = "closing" /\ closeCode'[c] = 1008
                 /\ data' = data]_vars

\* A rejected credential: the connection got AUTH_FAILED, is closing with code
\* 1008 and is not authenticated.
C8_Witness ==
    /\ last.op = "auth-result"
    /\ verifySessionToken(last.token) = None
    /\ sent[last.conn] = <<ErrorMsg("AUTH_FAILED")>>
    /\ status[last.conn] = "closing"
    /\ closeCode[last.conn] = 1008
    /\ ~data[last.conn].authenticated

\* C9: an auth message received on an authenticated connection is answered
\* with ALREADY_AUTHENTICATED and changes nothing: no verification is started,
\* identity, transport and registry stay as they were.
C9_ReauthRejected ==
    [][(last'.op = "auth" /\ data[last'.conn].authenticated)
       => /\ sent' = [d \in Conns |-> IF d = last'.conn
                                      THEN <<ErrorMsg("ALREADY_AUTHENTICATED")>> ELSE <<>>]
          /\ UNCHANGED <<data, pendingAuth, status, closeCode, registryVars,
                         metricsStreams>>]_vars

\* A registered producer sent auth again and got ALREADY_AUTHENTICATED.
C9_Witness ==
    /\ last.op = "auth"
    /\ data[last.conn].authenticated
    /\ sent[last.conn] = <<ErrorMsg("ALREADY_AUTHENTICATED")>>
    /\ InSomeProducerSlot(last.conn)

\* C10: authenticated never reverts and the user id stored when it became true
\* never changes, also with several verifications of one connection in flight.
C10_IdentityStable ==
    [][\A c \in Conns :
         data[c].authenticated
            => data'[c].authenticated /\ data'[c].userId = data[c].userId]_vars

\* The binding in a metadata record: role, stream and declared kinds.
Binding(m) == <<m.clientType, m.streamId, m.produces, m.consumes>>

\* C11: the role, streamId, produces and consumes of a connection are fixed by
\* its first accepted register or subscribe: while the connection keeps a
\* metadata record, no step changes any of them.
C11_BindingImmutable ==
    [][\A c \in Conns :
         \A m \in connectionMetadata[c], n \in connectionMetadata'[c] :
             Binding(n) = Binding(m)]_vars

\* C12: for every live connection c, stream s and kind k, c is in
\* consumers[s][k] iff c's metadata record binds it to s and lists k in consumes.
C12_MembershipMatchesMetadata ==
    \A c \in Conns :
        status[c] \in {"open", "closing"} =>
            \A s \in StreamIds, k \in Kinds :
                c \in Range(getConsumers(s, k))
                    <=> \E m \in connectionMetadata[c] : m.streamId = s /\ k \in m.consumes

\* The last step accepted a register that declares video-frame production for s.
ProducerRegistered(s) ==
    /\ last.op = "register"
    /\ last.streamId = s
    /\ data[last.conn].authenticated
    /\ "video-frame" \in data[last.conn].produces

\* C13: an accepted register declaring video-frame production for s takes the
\* producer slot of s and nobody gets an error; and the slot of s changes only
\* to such a registrant or to none, so a connection in the slot is the most
\* recently registered video producer of s.
C13_LatestProducerHoldsSlot ==
    [][\A s \in StreamIds :
         /\ ProducerRegistered(s)' =>
               /\ videoProducers'[s] = last'.conn
               /\ \A d \in Conns : \A i \in DOMAIN sent'[d] : sent'[d][i].type # "error"
         /\ videoProducers'[s] # videoProducers[s] =>
               \/ videoProducers'[s] = None
               \/ ProducerRegistered(s)']_vars

\* A connection has just taken the slot of a stream whose previous producer is
\* still connected with its producer record, and the previous producer got no
\* error.
C13_Witness ==
    \E s \in StreamIds :
        /\ ProducerRegistered(s)
        /\ videoProducers[s] = last.conn
        /\ \E d \in Conns \ {last.conn} :
              /\ status[d] = "open"
              /\ \E m \in connectionMetadata[d] :
                    m.streamId = s /\ "video-frame" \in m.produces
              /\ \A i \in DOMAIN sent[d] : sent[d][i].type # "error"

\* C14: however often registerConsumer(s, c, k) ran, getConsumers(s, k) holds c
\* at most once, and a consumer gets a frame or an alert at most once.
C14_RegisterConsumerIdempotent ==
    /\ \A s \in StreamIds, k \in Kinds, c \in Conns : Count(c, getConsumers(s, k)) <= 1
    /\ FanOutEvent => \A d \in Conns : Len(sent[d]) <= 1

\* Only c1 ever connected; it registered for the alerts of s1 twice (once by
\* register, once by subscribe), is once in the alert set and got an alert for
\* s1 once.
C14_Witness ==
    /\ status["c2"] = "idle"
    /\ registrations = 2
    /\ alertConsumers["s1"] = <<"c1">>
    /\ last.op = "alert"
    /\ last.streamId = "s1"
    /\ sent["c1"] = <<DataMsg("alert", "s1")>>

\* a is connected with the record of a video producer of s that consumes alerts.
IsProducerOf(a, s) ==
    /\ status[a] = "open"
    /\ \E m \in connectionMetadata[a] :
          m.streamId = s /\ "video-frame" \in m.produces /\ "alert" \in m.consumes

\* b is connected with the record of a consumer of both kinds of s.
IsViewerOf(b, s) ==
    /\ status[b] = "open"
    /\ \E m \in connectionMetadata[b] : m.streamId = s /\ m.consumes = Kinds

\* C15: with A registered as producer of s (video out, alerts in) and B
\* subscribed to s for both kinds, a video-frame A sends reaches B and an alert
\* B sends reaches A, for every send that does not fail.
C15_EndToEndRelay ==
    \A a \in Conns : \A b \in Conns \ {a} : \A s \in StreamIds :
        (IsProducerOf(a, s) /\ IsViewerOf(b, s) /\ last.streamId = s) =>
            /\ (last.op = "video-frame" /\ last.conn = a /\ b \notin last.fail)
                  => DataMsg("video-frame", s) \in Range(sent[b])
            /\ (last.op = "alert" /\ last.conn = b /\ a \notin last.fail)
                  => DataMsg("alert", s) \in Range(sent[a])

\* The viewer's alert for s1 has just reached the producer.
C15_Witness ==
    \E a \in Conns : \E b \in Conns \ {a} :
        /\ IsProducerOf(a, "s1") /\ IsViewerOf(b, "s1")
        /\ last.op = "alert" /\ last.conn = b /\ last.streamId = "s1"
        /\ DataMsg("alert", "s1") \in Range(sent[a])

\* C16: when the connection that registered as video-producing device for s
\* and still holds the slot of s disconnects, every other consumer of s whose
\* send does not fail gets status offline for s, and the slot of s is none.
\* (In RelaySpec every register comes from a producer device.)
C16_ProducerDisconnectAnnounced ==
    [][\A s \in StreamIds :
         (last'.op = "close" /\ videoProducers[s] = last'.conn) =>
            /\ videoProducers'[s] = None
            /\ \A d \in (Range(videoConsumers[s]) \cup Range(alertConsumers[s]))
                         \ ({last'.conn} \cup last'.fail) :
                  StatusMsg(s, "offline") \in Range(sent'[d])]_vars

\* C17: no connection stays open and unauthenticated forever: a connection that
\* never completes the handshake is eventually closed by the idle timeout, also
\* when it keeps sending messages that are rejected.
C17_UnauthenticatedEventuallyClosed ==
    \A c \in Conns : []<>~(status[c] = "open" /\ ~data[c].authenticated)

\* C18: a message of no known kind is answered with UNKNOWN_MESSAGE_TYPE to its
\* sender and nothing else: registry and tracker unchanged, nothing sent to
\* another connection, the connection left open.
C18_UnknownKindRejected ==
    [][last'.op = "unknown" =>
         /\ sent' = [d \in Conns |-> IF d = last'.conn
                                     THEN <<ErrorMsg("UNKNOWN_MESSAGE_TYPE")>> ELSE <<>>]
         /\ UNCHANGED <<registryVars, metricsStreams, status, closeCode, data, pendingAuth>>
         /\ status'[last'.conn] = "open"]_vars

\* A registered consumer of a stream that has a producer sent a message of no
\* known kind and got UNKNOWN_MESSAGE_TYPE.
C18_Witness ==
    /\ last.op = "unknown"
    /\ sent[last.conn] = <<ErrorMsg("UNKNOWN_MESSAGE_TYPE")>>
    /\ status[last.conn] = "open"
    /\ InSomeConsumerSet(last.conn)
    /\ \E d \in Conns \ {last.conn} : InSomeProducerSlot(d)

\* The sets of stream s and kind k that hold d, as a set of pairs.
Memberships(d) ==
    {<<s, k>> \in StreamIds \X Kinds : d \in Range(getConsumers(s, k))}

\* C19: a handler that throws is answered with ROUTING_ERROR to the sender; the
\* sender stays open and no other connection's record, producer slot, consumer
\* memberships or deliveries change.
C19_HandlerFailureContained ==
    [][last'.outcome = "threw" /\ last'.op # "close" =>
         /\ sent' = [d \in Conns |-> IF d = last'.conn
                                     THEN <<ErrorMsg("ROUTING_ERROR")>> ELSE <<>>]
         /\ UNCHANGED <<status, closeCode>>
         /\ \A d \in Conns \ {last'.conn} :
               /\ connectionMetadata'[d] = connectionMetadata[d]
               /\ data'[d] = data[d]
               /\ Memberships(d)' = Memberships(d)
               /\ \A s \in StreamIds : videoProducers[s] = d => videoProducers'[s] = d]_vars

\* A subscribe without a consumes list was answered with ROUTING_ERROR; the
\* sender is still open and the producer of the stream is still in its slot.
C19_Witness ==
    /\ last.op = "subscribe"
    /\ last.outcome = "threw"
    /\ sent[last.conn] = <<ErrorMsg("ROUTING_ERROR")>>
    /\ status[last.conn] = "open"
    /\ \E d \in Conns \ {last.conn} :
          videoProducers[last.streamId] = d /\ connectionMetadata[d] # {}

\* C20: in the ownership-checking dispatcher, such a register or subscribe is
\* answered with UNAUTHORIZED and nothing else: the connection stays as it was,
\* metadata, producer slots and consumer sets are unchanged and nothing is
\* broadcast.
C20_NotOwnedRejected ==
    [][(/\ last'.op \in {"register-resume", "subscribe-resume"}
        /\ last'.outcome # "db-error"
        /\ StreamOwner[last'.streamId] # data[last'.conn].userId)
       => /\ sent' = [d \in Conns |-> IF d = last'.conn
                                      THEN <<ErrorMsg("UNAUTHORIZED")>> ELSE <<>>]
          /\ UNCHANGED <<status, closeCode, data, registryVars>>]_vars

\* A connected user asked for a stream of another user while that stream has a
\* producer and a consumer; it got UNAUTHORIZED, is open and in no registry
\* structure.
C20_Witness ==
    /\ last.op \in {"register-resume", "subscribe-resume"}
    /\ StreamOwner[last.streamId] # data[last.conn].userId
    /\ sent[last.conn] = <<ErrorMsg("UNAUTHORIZED")>>
    /\ status[last.conn] = "open"
    /\ connectionMetadata[last.conn] = {}
    /\ ~InSomeConsumerSet(last.conn) /\ ~InSomeProducerSlot(last.conn)
    /\ videoProducers[last.streamId] # None

\* C21: in the ownership-checking dispatcher, a connection whose declared client
\* type is not ml-service enters a consumer set of stream s, of either kind,
\* only if its user owns s.
C21_ConsumersOwnTheirStream ==
    [][\A c \in Conns, s \in StreamIds, k \in Kinds :
         (/\ c \notin Range(getConsumers(s, k))
          /\ c \in Range(getConsumers(s, k))'
          /\ data'[c].clientType # "ml-service")
            => StreamOwner[s] = data'[c].userId]_vars

\* C22: whether or not storing an alert failed, the alert goes to every alert
\* consumer its stream has at that moment (whose send does not fail).
C22_AlertBroadcastDespiteStoreFailure ==
    [][last'.op = "alert-stored" =>
         \A d \in Range(alertConsumers[last'.streamId]) \ last'.fail :
             DataMsg("alert", last'.streamId) \in Range(sent'[d])]_vars

\* The insert of an alert failed and an alert consumer of the stream got the
\* alert all the same.
C22_Witness ==
    /\ last.op = "alert-stored"
    /\ last.outcome = "db-error"
    /\ \E d \in Range(alertConsumers[last.streamId]) :
          sent[d] = <<DataMsg("alert", last.streamId)>>

\* The connections whose transport is up: opened, close not yet handled.
Live == {c \in Conns : status[c] \in {"open", "closing"}}

\* C23: getStats().totalConnections is the number of live connections, those
\* that have not registered or subscribed included.
C23_TotalConnectionsCountsLive ==
    getStats.totalConnections = Cardinality(Live)

\* C24: every message that is not auth, a message of unknown kind included,
\* arriving on an unauthenticated connection is answered with AUTH_REQUIRED.
C24_AuthCheckedBeforeDispatch ==
    [][(/\ last'.op \in {"register", "subscribe", "video-frame", "alert", "unknown"}
        /\ ~data[last'.conn].authenticated)
       => sent'[last'.conn] = <<ErrorMsg("AUTH_REQUIRED")>>]_vars

\* C25: a register sent right after an auth with a valid credential is handled
\* after that auth has completed, so it is not answered with AUTH_REQUIRED.
C25_RegisterWaitsForAuth ==
    [][(/\ last'.op = "register"
        /\ \E token \in Tokens :
              /\ verifySessionToken(token) # None
              /\ pendingAuth[last'.conn][token] > 0)
       => ErrorMsg("AUTH_REQUIRED") \notin Range(sent'[last'.conn])]_vars

\* C26: a video-frame for s whose sender is not the connection in the producer
\* slot of s is relayed to nobody.
C26_OnlyProducerFramesRelayed ==
    (/\ FanOutEvent
     /\ last.op = "video-frame"
     /\ videoProducers[last.streamId] # last.conn)
        => \A d \in Conns : sent[d] = <<>>

\* The status events among the messages sent to d in the last step.
StatusCount(d) == Cardinality({i \in DOMAIN sent[d] : sent[d][i].type = "status"})

\* C28: a status broadcast for s pushes one status event to each connection in
\* the union of the video and alert consumers of s: once also to a connection
\* that is in both sets.
C28_StatusOncePerConsumer ==
    StatusEvent =>
        \A d \in (Range(videoConsumers[last.streamId])
                    \cup Range(alertConsumers[last.streamId])) \ last.fail :
            StatusCount(d) = 1

\* The last step accepted the register of a producer device that declares
\* video-frame production for s.
ProducerDeviceRegistered(s) ==
    /\ ProducerRegistered(s)
    /\ data[last.conn].clientType = "mobile"

\* C27 as stated: the status streaming event of such a register goes to the
\* connections that were consumers of s before the register, the registrant
\* being a recipient only if it was one of them.
C27_StatusToPriorConsumers ==
    [][\A s \in StreamIds :
         ProducerDeviceRegistered(s)' =>
            \A d \in Conns \ last'.fail :
                StatusMsg(s, "streaming") \in Range(sent'[d])
                    <=> d \in Range(videoConsumers[s]) \cup Range(alertConsumers[s])]_vars

\* C27 amended: the status streaming event goes to the connections that are
\* consumers of s once the memberships this register declares have been
\* added, so the registrant is a recipient also when it becomes a consumer of
\* s by this very register; the registrant gets its success reply first.
C27_StatusToConsumersAfterRegister ==
    [][\A s \in StreamIds :
         ProducerDeviceRegistered(s)' =>
            /\ \A d \in Conns \ last'.fail :
                  StatusMsg(s, "streaming") \in Range(sent'[d])
                      <=> d \in Range(videoConsumers'[s]) \cup Range(alertConsumers'[s])
            /\ Head(sent'[last'.conn]) = SuccessMsg
            /\ \A i \in 2..Len(sent'[last'.conn]) :
                  sent'[last'.conn][i] = StatusMsg(s, "streaming")]_vars

\* The first registration of a run: a producer device that also declares a
\* consumed kind got its success reply and then the status of its own stream.
C27_Witness ==
    \E s \in StreamIds :
        /\ ProducerDeviceRegistered(s)
        /\ registrations = 1
        /\ last.fail = {}
        /\ sent[last.conn] = <<SuccessMsg, StatusMsg(s, "streaming")>>

\* C29: a subscribe changes no producer slot and triggers no status event,
\* also when its message declares a produces list; when accepted, the stored
\* record has an empty produce set and the sender joins the sets of the
\* declared kinds of its stream, nothing else changing in the consumer sets.
C29_SubscribeOnlyAddsConsumer ==
    [][last'.op = "subscribe" =>
         /\ videoProducers' = videoProducers
         /\ \A d \in Conns : StatusCount(d)' = 0
         /\ data[last'.conn].authenticated =>
               /\ \A m \in connectionMetadata'[last'.conn] : m.produces = {}
               /\ \A s \in StreamIds, k \in Kinds :
                     getConsumers(s, k)' =
                        IF s = last'.streamId /\ k \in data'[last'.conn].consumes
                        THEN SetAdd(getConsumers(s, k), last'.conn)
                        ELSE getConsumers(s, k)]_vars

\* A subscribe that declared a produces list for a stream that has a
\* producer was accepted; its record has no produced kind and the producer is
\* still in the slot.
C29_Witness ==
    /\ last.op = "subscribe"
    /\ last.outcome = "produces-declared"
    /\ sent[last.conn] = <<SuccessMsg>>
    /\ \A m \in connectionMetadata[last.conn] : m.produces = {}
    /\ connectionMetadata[last.conn] # {}
    /\ \E d \in Conns \ {last.conn} : videoProducers[last.streamId] = d

\* C30: every video-frame or alert handed to a consumer has the properties
\* of the client's message with their values, and a timestamp: the client's
\* whenever the client's message had one (0 included), a value of the server
\* clock only when it had none.
C30_ClientTimestampKept ==
    last.message # NoMessage =>
        \A d \in Conns : \A i \in DOMAIN sent[d] :
            sent[d][i].type = last.message.type =>
                /\ DOMAIN sent[d][i] = DOMAIN last.message \cup {"timestamp"}
                /\ \A f \in DOMAIN last.message \ {"timestamp"} :
                      sent[d][i][f] = last.message[f]
                /\ IF HasTimestamp(last.message)
                   THEN sent[d][i].timestamp = last.message.timestamp
                   ELSE sent[d][i].timestamp \in ServerClock

\* C31: the disconnect of a connection that has no stored metadata record gets
\* none from removeConnection, and leaves the registry and the tracker as
\* they are without sending anything.
C31_RemoveWithoutRecordReturnsNone ==
    [][last'.op = "close" /\ connectionMetadata[last'.conn] = {} =>
         /\ removeConnection(last'.conn) = {}
         /\ UNCHANGED <<registryVars, metricsStreams>>
         /\ sent' = NoSends]_vars

\* C32: between handlers the registry shows every connection either with all
\* the updates of its register or subscribe or with all those of its cleanup:
\* a connection with a stored record is in the consumer set of every kind the
\* record declares, and a connection whose disconnect was handled is in no
\* consumer set, in no producer slot and has no record.
C32_ConsistentSnapshot ==
    \A c \in Conns :
        /\ \A m \in connectionMetadata[c] : \A k \in m.consumes :
              c \in Range(getConsumers(m.streamId, k))
        /\ status[c] = "closed" =>
              /\ connectionMetadata[c] = {}
              /\ Memberships(c) = {}
              /\ \A s \in StreamIds : videoProducers[s] # c

\* C33: a tracked frame changes the rate of its stream only when it arrives at
\* least 1000 ms after the last rate computation (or after the first tracked
\* frame of the entry); then the rate becomes the integer nearest to the frames
\* counted in the window, the triggering frame included, per elapsed second,
\* the counter is 0 and the window starts at the frame's time.  Otherwise the
\* frame is counted and rate and window stay.  getFPS gives the rate of the
\* entry, which is 0 as long as no rate has been computed.
C33_RateOncePerSecond ==
    [][\A s \in StreamIds :
         last'.op = "trackFrame" /\ last'.streamId = s =>
            \E after \in streams'[s] :
                LET first == streams[s] = {}
                    frames == IF first THEN 1
                              ELSE (CHOOSE m \in streams[s] : TRUE).frameCount + 1
                    windowStart == IF first THEN clock
                                   ELSE (CHOOSE m \in streams[s] : TRUE).lastFpsUpdate
                    elapsed == clock - windowStart
                    diff == after.fps * elapsed - frames * 1000
                IN /\ IF elapsed >= 1000
                      THEN /\ 2 * diff <= elapsed /\ 2 * (0 - diff) <= elapsed
                           /\ after.frameCount = 0
                           /\ after.lastFpsUpdate = clock
                      ELSE /\ after.fps = getFPS(s)
                           /\ after.frameCount = frames
                           /\ after.lastFpsUpdate = windowStart
                   /\ getFPS(s)' = after.fps
                   /\ after.lastFpsUpdate = after.startTime => getFPS(s)' = 0]_vars

\* A frame that arrived a second or more after the window started has just
\* been tracked: the two frames of the window gave the rate and the counter
\* is back at 0.
C33_Witness ==
    /\ last.op = "trackFrame"
    /\ \E m \in streams[last.streamId] :
          /\ m.lastFpsUpdate = clock
          /\ m.lastFpsUpdate - m.startTime = 1000
          /\ m.frameCount = 0
          /\ m.fps = 2
          /\ getFPS(last.streamId) = 2

\* C34: a status offline for stream s is sent only when s has no producer, and
\* a disconnect that leaves s with a producer keeps the tracker entry of s.
C34_OfflineOnlyWithoutProducer ==
    [][\A s \in StreamIds :
         /\ (\E d \in Conns : StatusMsg(s, "offline") \in Range(sent'[d]))
               => videoProducers'[s] = None
         /\ (last'.op = "close" /\ videoProducers'[s] # None /\ s \in metricsStreams)
               => s \in metricsStreams']_vars

\* C35: in the ownership-checking dispatcher, a register or subscribe that
\* resumes from its ownership lookup after the close of its connection was
\* handled adds nothing to the registry: no record, no producer slot, no
\* consumer membership.
C35_ClosedConnectionNotRegistered ==
    [][(/\ last'.op \in {"register-resume", "subscribe-resume"}
        /\ status[last'.conn] = "closed")
           => UNCHANGED registryVars]_vars

\* C36: a message answered with an error reply leaves metadata records,
\* producer slots and consumer sets as they were, and the close handler of a
\* connection always completes: it does not throw and the record is gone.
C36_ErrorReplyLeavesRegistry ==
    [][/\ (\E c \in Conns : \E i \in DOMAIN sent'[c] :
                last'.conn = c /\ sent'[c][i].type = "error")
            => UNCHANGED registryVars
       /\ last'.op = "close"
            => last'.outcome # "threw" /\ connectionMetadata'[last'.conn] = {}]_vars

\* C37: the tracker has an entry for stream s only while a live connection is
\* the registered video-frame producer of s.
C37_TrackerEntryOnlyWithProducer ==
    \A s \in metricsStreams :
        \E c \in Conns : videoProducers[s] = c /\ status[c] \in {"open", "closing"}

\* The copies of message msg among what was sent to d.
Copies(d, msg) == Cardinality({i \in DOMAIN sent[d] : sent[d][i] = msg})

\* C38: a video-frame or alert for stream s from an authenticated connection,
\* registered for s or not, reaches every consumer of its kind for s whose send
\* does not fail, once per membership, the sender included when it is such a
\* consumer.
C38_FanOutIncludesSender ==
    [][\A k \in Kinds, s \in StreamIds :
         (last'.op = k /\ last'.streamId = s /\ data[last'.conn].authenticated) =>
            \A d \in Conns \ last'.fail :
                Copies(d, DataMsg(k, s))' = Count(d, getConsumers(s, k))]_vars

\* A connection that is an alert consumer of a stream sent an alert for it and
\* got its own copy.
C38_Witness ==
    /\ last.op = "alert"
    /\ last.conn \in Range(alertConsumers[last.streamId])
    /\ last.conn \notin last.fail
    /\ DataMsg("alert", last.streamId) \in Range(sent[last.conn])
====
